---- MODULE Spec2Model ----
(***************************************************************************)
(* Market grouping and probability-consistency analysis of the Kalshi      *)
(* weather collector: the weather_markets table written by                 *)
(* fetch_kalshi_weather.py and the three analyses of                       *)
(* analyze_multivariate_markets.py that read it.                           *)
(*                                                                         *)
(* Prices are exact decimals counted in units of 0.0001, so 0.95 is 9500   *)
(* and the epsilon 0.001 of the z-score is 10.  A ticker is the sequence   *)
(* of its characters, so that rsplit('-', 1) is computed, not assumed.     *)
(* A query result (a pandas DataFrame) is the set of its rows: SQL leaves  *)
(* the order of rows with equal timestamps open.                           *)
(***************************************************************************)
EXTENDS Integers, Sequences, FiniteSets, TLC

VARIABLES
    store,           \* rows of table weather_markets
    nsaves,          \* number of save_market_to_db calls made so far
    saved,           \* row bound by the last save_market_to_db call
    pc,              \* position of the analysis caller
    event_tickers,   \* argument of the running analysis call
    threshold,       \* argument of detect_probability_anomalies, <<num, den>>
    selected,        \* rows the running query's WHERE clause matched
    df,              \* DataFrame the running call read
    result,          \* value the last call returned
    tickers,         \* df['ticker'].values inside group_related_markets
    related_groups,  \* dict built by group_related_markets, in insertion order
    i,               \* loop index of the __main__ report loop
    report           \* what the __main__ loop has reported, one entry per group

vars == <<store, nsaves, saved, pc, event_tickers, threshold, selected, df, result,
          tickers, related_groups, i, report>>

storeVars == <<store, nsaves, saved>>
callVars == <<pc, event_tickers, threshold, selected, df, result>>
groupVars == <<tickers, related_groups>>
reportVars == <<i, report>>

(***************************************************************************)
(* Bounds of the model.                                                    *)
(***************************************************************************)
MaxLen == 3
MaxTime == 2
MaxSaves == 3

\* SQL NULL / Python None / NaN in a text column, a numeric column, the ticker
\* column.
NULL == "NULL"
NullNum == -1
NullTicker == <<"NULL">>

\* The None a function returns.
None == [kind |-> "None"]

(***************************************************************************)
(* Tickers.                                                                *)
(***************************************************************************)
Hyphen == "-"

E0 == << >>
TA == <<"A">>
A1 == <<"A", "-", "1">>
A2 == <<"A", "-", "2">>
A3 == <<"A", "-", "3">>
A4 == <<"A", "-", "4">>
A12 == <<"A", "-", "1", "-", "2">>
B1 == <<"B", "-", "1">>
C1t == <<"C", "-", "1">>
D1 == <<"D", "-", "1">>
D2 == <<"D", "-", "2">>
Z1 == <<"Z", "-", "1">>

\* Byte values of the characters used, for ORDER BY ticker (BINARY collation).
Ord(c) ==
    CASE c = "-" -> 45
      [] c = "1" -> 49
      [] c = "2" -> 50
      [] c = "3" -> 51
      [] c = "4" -> 52
      [] c = "A" -> 65
      [] c = "B" -> 66
      [] c = "C" -> 67
      [] c = "D" -> 68
      [] c = "Z" -> 90

Min(a, b) == IF a <= b THEN a ELSE b

\* s < t in byte order.
TickerLess(s, t) ==
    \E k \in 1..(Min(Len(s), Len(t)) + 1) :
        /\ \A j \in 1..(k - 1) : s[j] = t[j]
        /\ \/ k = Len(s) + 1 /\ k <= Len(t)
           \/ k <= Len(s) /\ k <= Len(t) /\ Ord(s[k]) < Ord(t[k])

\* All sequences over S of length at most n.
RECURSIVE SeqsUpTo(_, _)
SeqsUpTo(S, n) ==
    IF n = 0 THEN {<< >>}
    ELSE LET shorter == SeqsUpTo(S, n - 1)
         IN  shorter \cup {Append(q, x) : q \in shorter, x \in S}

(***************************************************************************)
(* group_related_markets, lines 39-50: the loop over df['ticker'].values.  *)
(***************************************************************************)
\* Index of the last '-' of ticker, 0 when it has none.
LastHyphen(ticker) ==
    LET at == {k \in 1..Len(ticker) : ticker[k] = Hyphen}
    IN  IF at = {} THEN 0 ELSE CHOOSE k \in at : \A j \in at : j <= k

\* ticker.split('-', 1): the split at the first '-'.
FirstHyphenSplit(ticker) ==
    LET at == {k \in 1..Len(ticker) : ticker[k] = Hyphen}
        k == IF at = {} THEN 0 ELSE CHOOSE x \in at : \A j \in at : x <= j
    IN  IF k = 0 THEN <<ticker>>
        ELSE <<SubSeq(ticker, 1, k - 1), SubSeq(ticker, k + 1, Len(ticker))>>

\* ticker.rsplit('-', 1)
rsplit(ticker) ==
    LET k == LastHyphen(ticker)
    IN  IF k = 0 THEN <<ticker>>
        ELSE <<SubSeq(ticker, 1, k - 1), SubSeq(ticker, k + 1, Len(ticker))>>

\* related_groups[key].append(ticker) on a defaultdict(list): a new key goes
\* to the end of the dict, an existing key keeps its place.
DictAppend(groups, key, ticker) ==
    IF \E k \in 1..Len(groups) : groups[k].key = key
    THEN [k \in 1..Len(groups) |->
            IF groups[k].key = key
            THEN [key |-> key, members |-> Append(groups[k].members, ticker)]
            ELSE groups[k]]
    ELSE Append(groups, [key |-> key, members |-> <<ticker>>])

RECURSIVE GroupLoop(_, _)
GroupLoop(values, groups) ==
    IF values = << >> THEN groups
    ELSE LET ticker == Head(values)
             parts == rsplit(ticker)
         IN  IF Len(parts) > 1
             THEN GroupLoop(Tail(values), DictAppend(groups, parts[1], ticker))
             ELSE GroupLoop(Tail(values), DictAppend(groups, ticker, ticker))

(***************************************************************************)
(* The weather_markets table, fetch_kalshi_weather.py.  A row carries the  *)
(* columns of the INSERT; the AUTOINCREMENT id is read by no query and is  *)
(* left out.  Timestamps are ISO texts compared as texts; they are         *)
(* numbered 1..MaxTime in their text order.                                *)
(***************************************************************************)
Series == "KXHIGHNY"

SeriesOf(ticker) == IF ticker = Z1 THEN "OTHER" ELSE Series

\* A market dict of the API with every key the INSERT reads.
FullMarket(ticker, price) ==
    [ticker |-> ticker, yes_price |-> price, no_price |-> 10000 - price,
     volume |-> 7, open_interest |-> 3, status |-> "open",
     series_ticker |-> SeriesOf(ticker),
     min_order_size |-> 1, max_order_size |-> 100]

\* A market dict with only the keys the analyses need.
BareMarket(ticker, price) ==
    [ticker |-> ticker, yes_price |-> price, series_ticker |-> SeriesOf(ticker)]

\* A market dict without a ticker.
NoTickerMarket == [yes_price |-> 5000, status |-> "open"]

\* market.get(key, default)
Get(market, key, default) ==
    IF key \in DOMAIN market THEN market[key] ELSE default

\* The tuple bound to the INSERT's placeholders, lines 99-110.
RowOf(market, timestamp) ==
    [timestamp |-> timestamp,
     ticker |-> Get(market, "ticker", NullTicker),
     yes_price |-> Get(market, "yes_price", NullNum),
     no_price |-> Get(market, "no_price", NullNum),
     volume |-> Get(market, "volume", 0),
     open_interest |-> Get(market, "open_interest", 0),
     status |-> Get(market, "status", NULL),
     series_ticker |-> Get(market, "series_ticker", NULL),
     min_order |-> Get(market, "min_order_size", NullNum),
     max_order |-> Get(market, "max_order_size", NullNum)]

SameKey(r, s) == r.timestamp = s.timestamp /\ r.ticker = s.ticker

\* INSERT OR IGNORE: the stored row wins.
InsertOrIgnore(rows, row) ==
    IF row.ticker = NullTicker THEN rows
    ELSE IF \E r \in rows : SameKey(r, row) THEN rows
    ELSE rows \cup {row}

\* INSERT OR REPLACE under UNIQUE(timestamp, ticker) and the NOT NULL columns:
\* a NULL in a NOT NULL column aborts the statement (the except branch logs it
\* and the table is as before); a row with the same key is deleted first.
InsertOrReplace(rows, row) ==
    IF row.ticker = NullTicker THEN rows
    ELSE {r \in rows : ~SameKey(r, row)} \cup {row}

save_market_to_db(rows, market, timestamp) ==
    InsertOrReplace(rows, RowOf(market, timestamp))

(***************************************************************************)
(* Arithmetic on exact decimals.                                           *)
(***************************************************************************)
Abs(x) == IF x < 0 THEN -x ELSE x

\* num/den (num >= 0, den > 0) rounded to the nearest multiple of step, ties
\* to the even multiple: round(x, 3) with step 10.
RoundHalfEven(num, den, step) ==
    LET unit == den * step
        q == num \div unit
        rem == num - q * unit
    IN  IF 2 * rem < unit THEN q * step
        ELSE IF 2 * rem > unit THEN (q + 1) * step
        ELSE IF q % 2 = 0 THEN q * step ELSE (q + 1) * step

RECURSIVE ISqrtIn(_, _, _)
ISqrtIn(lo, hi, v) ==
    IF lo = hi THEN lo
    ELSE LET mid == (lo + hi + 1) \div 2
         IN  IF mid * mid <= v THEN ISqrtIn(mid, hi, v) ELSE ISqrtIn(lo, mid - 1, v)

\* The largest r with r * r <= v.
ISqrt(v) == ISqrtIn(0, Min(v, 46340), v)

\* sqrt(v)/den rounded to the nearest multiple of step.
RoundSqrt(v, den, step) ==
    LET r == ISqrt(v)
        exact == r * r = v
        unit == den * step
        q == r \div unit
        half == 2 * q * unit + unit     \* twice the midpoint
    IN  IF exact /\ 2 * r = half
        THEN (IF q % 2 = 0 THEN q * step ELSE (q + 1) * step)
        ELSE IF 2 * r >= half THEN (q + 1) * step ELSE q * step

RECURSIVE SumOver(_, _)
\* Sum of f[r] over the rows.
SumOver(rows, f) ==
    IF rows = {} THEN 0
    ELSE LET r == CHOOSE x \in rows : TRUE
         IN  f[r] + SumOver(rows \ {r}, f)

\* Series.max() of the timestamp column (NaN, here 0, when the column is empty).
MaxTimestamp(rows) ==
    IF rows = {} THEN 0
    ELSE CHOOSE t \in {r.timestamp : r \in rows} : \A r \in rows : r.timestamp <= t

\* WHERE ticker IN (...)
Where(rows, tkrs) ==
    {r \in rows : \E k \in 1..Len(tkrs) : tkrs[k] = r.ticker}

\* ORDER BY timestamp DESC LIMIT n: any n rows none of which is older than a
\* row left out.
LimitChoices(rows, n) ==
    {d \in SUBSET rows :
        /\ Cardinality(d) = Min(n, Cardinality(rows))
        /\ \A r \in d : \A s \in rows \ d : r.timestamp >= s.timestamp}

\* df with every row, whatever its timestamp.
AllRows(frame) == frame

\* df[df['timestamp'] == latest_timestamp]
LatestRows(frame) ==
    {r \in frame : r.timestamp = MaxTimestamp(frame)}

\* Series.sum() skips NaN.
PriceSum(rows) ==
    SumOver({r \in rows : r.yes_price # NullNum}, [r \in rows |-> r.yes_price])

(***************************************************************************)
(* calculate_implied_probability_sum, lines 75-90, on the frame it read.   *)
(***************************************************************************)
\* Line 88.
Efficiency(total_probability) ==
    IF 9500 < total_probability /\ total_probability < 10500 THEN "Fair"
    ELSE IF total_probability > 10500 THEN "Expensive"
    ELSE "Cheap"

\* The frame is never reported empty.
NeverEmpty(frame) == FALSE

\* df.empty
IsEmpty(frame) == frame = {}

calculate_implied_probability_sum(tkrs, frame) ==
    IF IsEmpty(frame) THEN None
    ELSE LET latest_timestamp == MaxTimestamp(frame)
             latest_prices == LatestRows(frame)
             total_probability == PriceSum(latest_prices)
         IN  [kind |-> "consistency",
              event_tickers |-> tkrs,
              timestamp |-> latest_timestamp,
              total_probability_sum |-> RoundHalfEven(total_probability, 1, 10),
              implied_efficiency |-> Efficiency(total_probability),
              market_prices |->
                  {[ticker |-> r.ticker, yes_price |-> r.yes_price] :
                      r \in latest_prices}]

(***************************************************************************)
(* detect_probability_anomalies, lines 114-140, on the frame it read.      *)
(* With n prices of sum s, d = n*price - s is n times the deviation from   *)
(* the mean and v = (sum of d*d)/n is the square of n times np.std, so     *)
(* z_score = d / (sqrt(v) + n*Epsilon).                                    *)
(***************************************************************************)
Epsilon == 10

\* 1.5 of line 126, as <<numerator, denominator>>.
ZCut == <<3, 2>>

\* The default of the threshold parameter, line 92: 0.15.
DefaultThreshold == <<3, 20>>

\* abs(d / (sqrt(v) + n*Epsilon)) > cut[1]/cut[2]
ZExceeds(d, n, v, cut) ==
    LET a == cut[1]
        b == cut[2]
        l == b * Abs(d) - a * n * Epsilon
    IN  IF a < 0 THEN TRUE
        ELSE IF a = 0 THEN d # 0
        ELSE l > 0 /\ l * l > a * a * v

\* n * (row['yes_price'] - mean_price)
ZNum(price, n, s) == n * price - s

\* len(df) < 4
FewerThanFour(frame) == Cardinality(frame) < 4

\* len(df) < 3
TooFew(frame) == Cardinality(frame) < 3

detect_probability_anomalies(tkrs, thr, frame) ==
    IF TooFew(frame) THEN None
    ELSE LET rows == LatestRows(frame)
             n == Cardinality(rows)
             nan == \E r \in rows : r.yes_price = NullNum
             s == IF nan THEN 0 ELSE PriceSum(rows)
             d == [r \in rows |-> IF nan THEN 0 ELSE ZNum(r.yes_price, n, s)]
             v == SumOver(rows, [r \in rows |-> d[r] * d[r]]) \div n
             anomalies ==
                 {[ticker |-> r.ticker,
                   price |-> r.yes_price,
                   z_num |-> d[r],
                   anomaly_type |->
                       IF d[r] > 0 THEN "UNUSUALLY_HIGH" ELSE "UNUSUALLY_LOW"] :
                     r \in {x \in rows : ~nan /\ ZExceeds(d[x], n, v, ZCut)}}
         IN  [kind |-> "anomalies",
              event_tickers |-> tkrs,
              mean_price |-> IF nan THEN NullNum ELSE RoundHalfEven(s, n, 10),
              std_dev |-> IF nan THEN NullNum ELSE RoundSqrt(v, n, 10),
              anomalies_detected |-> anomalies # {},
              anomalies |-> anomalies]

\* No analysis call has been made.
NoCall ==
    /\ event_tickers = << >>
    /\ threshold = DefaultThreshold
    /\ selected = {}
    /\ df = {}
    /\ result = None

NoReport == i = 0 /\ report = << >>

NoGrouping == tickers = << >> /\ related_groups = << >>

(***************************************************************************)
(* The grouping loop applied to any ordered sequence of instrument ids.    *)
(***************************************************************************)
TickerUniverse == {E0, TA, A1, A2, A12, B1}

InitGroup ==
    /\ tickers \in SeqsUpTo(TickerUniverse, MaxLen)
    /\ related_groups = << >>
    /\ pc = "start"
    /\ store = {}
    /\ nsaves = 0
    /\ saved = None
    /\ NoCall
    /\ NoReport

\* First call on the input.
GroupCall ==
    /\ pc = "start"
    /\ related_groups' = GroupLoop(tickers, << >>)
    /\ pc' = "grouped"
    /\ UNCHANGED <<storeVars, event_tickers, threshold, selected, df, result,
                   tickers, reportVars>>

\* The call repeated on the same input.
GroupAgain ==
    /\ pc \in {"grouped", "regrouped"}
    /\ related_groups' = GroupLoop(tickers, << >>)
    /\ pc' = "regrouped"
    /\ UNCHANGED <<storeVars, event_tickers, threshold, selected, df, result,
                   tickers, reportVars>>

NextGroup == GroupCall \/ GroupAgain

SpecGroup == InitGroup /\ [][NextGroup]_vars

\* The position of the last '-' of t, stated without the code's search.
IsLastHyphen(t, k) ==
    /\ k \in 1..Len(t)
    /\ t[k] = Hyphen
    /\ \A j \in (k + 1)..Len(t) : t[j] # Hyphen

\* key is the prefix of t before its last '-', or t itself when t has none.
IsKeyOf(key, t) ==
    \/ (\A j \in 1..Len(t) : t[j] # Hyphen) /\ key = t
    \/ \E k \in 1..Len(t) : IsLastHyphen(t, k) /\ key = SubSeq(t, 1, k - 1)

\* s restricted to the ids whose key is key, in input order.
RECURSIVE WithKey(_, _)
WithKey(s, key) ==
    IF s = << >> THEN << >>
    ELSE IF IsKeyOf(key, Head(s))
         THEN <<Head(s)>> \o WithKey(Tail(s), key)
         ELSE WithKey(Tail(s), key)

Grouped == pc \in {"grouped", "regrouped"}

\* C1: after the Grouper ran on an ordered sequence of ids, every id of the
\* input is a member of exactly one group, the group keyed by the id's prefix
\* before its last '-' (the id itself when it has no '-'); no two groups share
\* a key; each group's members are the input's ids of that key in input
\* order; and a repeated call on the same input leaves the grouping as it was.
C1_Partition ==
    /\ [](Grouped =>
            /\ \A k \in 1..Len(tickers) :
                 \A g \in 1..Len(related_groups) :
                    (\E m \in 1..Len(related_groups[g].members) :
                        related_groups[g].members[m] = tickers[k])
                    <=> IsKeyOf(related_groups[g].key, tickers[k])
            /\ \A k \in 1..Len(tickers) :
                 \E g \in 1..Len(related_groups) :
                    IsKeyOf(related_groups[g].key, tickers[k])
            /\ \A g, h \in 1..Len(related_groups) :
                 related_groups[g].key = related_groups[h].key => g = h
            /\ \A g \in 1..Len(related_groups) :
                 related_groups[g].members = WithKey(tickers, related_groups[g].key))
    /\ [][Grouped => related_groups' = related_groups]_vars

\* An id with two hyphens, an id with one and an id without any were grouped,
\* twice, into two groups.
C1_Witness ==
    /\ pc = "regrouped"
    /\ \E k \in 1..Len(tickers) : tickers[k] = A12
    /\ \E k \in 1..Len(tickers) : tickers[k] = A1
    /\ \E k \in 1..Len(tickers) : tickers[k] = TA
    /\ Len(related_groups) = 2

(***************************************************************************)
(* The calls, as steps of a caller.  Each function runs one SELECT (an     *)
(* SQLite read sees one state of the table) and then computes on the       *)
(* DataFrame it got, so a save may fall between the two.                   *)
(***************************************************************************)
Ready == pc \in {"idle", "cons_returned", "anom_returned"}

\* save_market_to_db(market, timestamp), lines 91-115.
SaveStep(market, timestamp) ==
    /\ nsaves < MaxSaves
    /\ store' = save_market_to_db(store, market, timestamp)
    /\ nsaves' = nsaves + 1

\* calculate_implied_probability_sum(g), lines 61-73: the query.
ConsQuery(g) ==
    /\ Ready
    /\ event_tickers' = g
    /\ threshold' = DefaultThreshold
    /\ selected' = Where(store, g)
    /\ df' = selected'
    /\ result' = None
    /\ pc' = "cons_queried"
    /\ UNCHANGED <<storeVars, groupVars, reportVars>>

\* calculate_implied_probability_sum, lines 75-90.
ConsReturn ==
    /\ pc = "cons_queried"
    /\ result' = calculate_implied_probability_sum(event_tickers, df)
    /\ pc' = "cons_returned"
    /\ UNCHANGED <<storeVars, event_tickers, threshold, selected, df,
                   groupVars, reportVars>>

\* detect_probability_anomalies(g, thr), lines 100-112: the query.
AnomQuery(g, thr) ==
    /\ Ready
    /\ event_tickers' = g
    /\ threshold' = thr
    /\ selected' = Where(store, g)
    /\ df' \in LimitChoices(selected', Len(g))
    /\ result' = None
    /\ pc' = "anom_queried"
    /\ UNCHANGED <<storeVars, groupVars, reportVars>>

\* detect_probability_anomalies, lines 114-140.
AnomReturn ==
    /\ pc = "anom_queried"
    /\ result' = detect_probability_anomalies(event_tickers, threshold, df)
    /\ pc' = "anom_returned"
    /\ UNCHANGED <<storeVars, event_tickers, threshold, selected, df,
                   groupVars, reportVars>>

(***************************************************************************)
(* A writer saving observations while a caller runs the two analyses.      *)
(***************************************************************************)
StoreTickers == {A1, A2, A3}

Markets ==
    {FullMarket(t, 5000) : t \in StoreTickers}
        \cup {BareMarket(t, 5500) : t \in StoreTickers}
        \cup {NoTickerMarket}

CallGroups == {<<A1, A2>>, <<A1, A2, A3>>}

Init ==
    /\ store = {}
    /\ nsaves = 0
    /\ saved = None
    /\ pc = "idle"
    /\ NoCall
    /\ NoGrouping
    /\ NoReport

Save ==
    \E market \in Markets, timestamp \in 1..MaxTime :
        /\ SaveStep(market, timestamp)
        /\ UNCHANGED <<saved, callVars, groupVars, reportVars>>

Consistency == \E g \in CallGroups : ConsQuery(g)

Anomalies == \E g \in CallGroups : AnomQuery(g, DefaultThreshold)

Next == Save \/ Consistency \/ ConsReturn \/ Anomalies \/ AnomReturn

Spec == Init /\ [][Next]_vars

(***************************************************************************)
(* What the claims say of a call, computed from the rows the store held    *)
(* for the group when the call queried it.                                 *)
(***************************************************************************)
\* t is the most recent timestamp among rows.
IsAsOf(t, rows) ==
    /\ \E r \in rows : r.timestamp = t
    /\ \A r \in rows : r.timestamp <= t

\* The observations at the most recent timestamp.
AtAsOf(rows) == {r \in rows : IsAsOf(r.timestamp, rows)}

RECURSIVE TotalPrice(_)
TotalPrice(rows) ==
    IF rows = {} THEN 0
    ELSE LET r == CHOOSE x \in rows : TRUE
         IN  r.yes_price + TotalPrice(rows \ {r})

\* C3: a returned consistency result carries the most recent timestamp the
\* group had at query time, lists exactly the observations of that timestamp
\* and sums exactly their prices; a returned anomaly result has the mean of
\* exactly those observations (a member without one is not counted, as 0 or
\* otherwise) and flags only them, at the price they have.
C3_PointInTime ==
    /\ (pc = "cons_returned" /\ result # None) =>
          /\ IsAsOf(result.timestamp, selected)
          /\ result.market_prices =
                {[ticker |-> r.ticker, yes_price |-> r.yes_price] :
                    r \in AtAsOf(selected)}
          /\ result.total_probability_sum =
                RoundHalfEven(TotalPrice(AtAsOf(selected)), 1, 10)
    /\ (pc = "anom_returned" /\ result # None) =>
          /\ result.mean_price =
                RoundHalfEven(TotalPrice(AtAsOf(selected)),
                              Cardinality(AtAsOf(selected)), 10)
          /\ \A a \in result.anomalies :
                \E r \in AtAsOf(selected) :
                    a.ticker = r.ticker /\ a.price = r.yes_price

\* An analysis returned a result for a group that had observations at two
\* timestamps and a member without one at the later, a save having changed
\* the group's rows after the query.
C3_Witness ==
    /\ pc \in {"cons_returned", "anom_returned"}
    /\ result # None
    /\ \E r, q \in selected : r.timestamp < q.timestamp
    /\ \E k \in 1..Len(event_tickers) :
          /\ \E r \in selected : r.ticker = event_tickers[k]
          /\ \A r \in AtAsOf(selected) : r.ticker # event_tickers[k]
    /\ Where(store, event_tickers) # selected

\* C4 as claimed: with fewer than 3 members observed at the as-of timestamp
\* the detector returns absent.
C4_AbsentBelowThree ==
    (pc = "anom_returned" /\ Cardinality(AtAsOf(selected)) < 3)
        => result = None

\* C10: the evaluator returns absent exactly when the store held no
\* observation of any member at query time, and otherwise a result whose
\* timestamp is the most recent one among the group's observations.
C10_AbsentIffNoObservation ==
    pc = "cons_returned" =>
        /\ result = None <=>
              ~\E r \in selected : \E k \in 1..Len(event_tickers) :
                    r.ticker = event_tickers[k]
        /\ result # None =>
              /\ result.kind = "consistency"
              /\ IsAsOf(result.timestamp, selected)

\* The evaluator returned absent for a group while the store held
\* observations of another instrument only.
C10_WitnessAbsent ==
    /\ pc = "cons_returned"
    /\ result = None
    /\ store # {}

(***************************************************************************)
(* The writer alone, remembering the row of its last call.                 *)
(***************************************************************************)
SaveMarkets ==
    {FullMarket(t, 5000) : t \in {A1, A2}}
        \cup {BareMarket(t, 5500) : t \in {A1, A2}}
        \cup {FullMarket(A1, 6000), NoTickerMarket}

InitSave == Init

SaveLogged ==
    \E market \in SaveMarkets, timestamp \in 1..MaxTime :
        /\ SaveStep(market, timestamp)
        /\ saved' = RowOf(market, timestamp)
        /\ UNCHANGED <<callVars, groupVars, reportVars>>

NextSave == SaveLogged

SpecSave == InitSave /\ [][NextSave]_vars

\* C8 as claimed: no two stored observations share (timestamp, ticker), and
\* an observation once stored stays in the store as it was created.
C8_NeverMutated ==
    /\ [](\A r, q \in store : SameKey(r, q) => r = q)
    /\ [][\A r \in store : r \in store']_vars

\* C8 amended: no two stored observations share (timestamp, ticker); a save
\* with a ticker leaves exactly its own row under its key, whatever was stored
\* there before; a save changes no observation stored under another key; a
\* save without a ticker changes nothing.
C8_ReplacedOnSameKey ==
    /\ [](\A r, q \in store : SameKey(r, q) => r = q)
    /\ [][nsaves' # nsaves =>
            /\ \A r \in store : SameKey(r, saved') \/ r \in store'
            /\ \A r \in store' : SameKey(r, saved') \/ r \in store
            /\ IF saved'.ticker = NullTicker
               THEN store' = store
               ELSE \A r \in store' : SameKey(r, saved') => r = saved']_vars

\* A save has overwritten the observation stored under its key.
C8_Witness ==
    /\ nsaves = 2
    /\ Cardinality(store) = 1
    /\ saved \in store
    /\ saved.yes_price = 6000

(***************************************************************************)
(* The two analyses as functions of the table: the table is any of the     *)
(* snapshots below, nobody writes, and every call is made on it.           *)
(***************************************************************************)
EvalTickers == {A1, A2, A3, A4}

\* 0.45, 0.5, 0.5004, 0.55 and a market dict without a yes_price.
EvalPrices == {4500, 5000, 5004, 5500, NullNum}

EvalMarket(t, price) ==
    IF price = NullNum
    THEN [ticker |-> t, series_ticker |-> SeriesOf(t)]
    ELSE BareMarket(t, price)

\* An earlier poll that saw every instrument at 0.9.
OldPoll == {RowOf(BareMarket(t, 9000), 1) : t \in EvalTickers}

\* The rows a poll at timestamp 2 leaves that saw the instruments of f at the
\* prices f gives.
Poll(f) == {RowOf(EvalMarket(t, f[t]), 2) : t \in DOMAIN f}

EvalStores ==
    UNION {{Poll(f) \cup old : f \in [P -> EvalPrices], old \in {{}, OldPoll}} :
              P \in SUBSET EvalTickers}

EvalGroups == {<<A1, A2>>, <<A1, A2, A3>>, <<A1, A2, A3, A4>>, <<E0, A1>>}

\* -1, 1, 1.5 and 2.
Thresholds == {<<-1, 1>>, <<1, 1>>, <<3, 2>>, <<2, 1>>}

InitEval ==
    /\ store \in EvalStores
    /\ nsaves = 0
    /\ saved = None
    /\ pc = "idle"
    /\ NoCall
    /\ NoGrouping
    /\ NoReport

\* One call per snapshot: a later call on the same table reads the same rows.
EvalConsistency == pc = "idle" /\ \E g \in EvalGroups : ConsQuery(g)

EvalAnomalies ==
    pc = "idle" /\ \E g \in EvalGroups, thr \in Thresholds : AnomQuery(g, thr)

NextEval == EvalConsistency \/ ConsReturn \/ EvalAnomalies \/ AnomReturn

SpecEval == InitEval /\ [][NextEval]_vars

Numeric(rows) == \A r \in rows : r.yes_price # NullNum

\* C2 as claimed: the label is Fair exactly for 0.95 < S < 1.05, Expensive
\* exactly for S >= 1.05 and Cheap exactly for S <= 0.95, S the unrounded sum
\* of the prices at the as-of timestamp.
C2_Classification ==
    (pc = "cons_returned" /\ result # None /\ Numeric(AtAsOf(selected))) =>
        LET S == TotalPrice(AtAsOf(selected))
        IN  /\ result.implied_efficiency = "Fair" <=> (9500 < S /\ S < 10500)
            /\ result.implied_efficiency = "Expensive" <=> S >= 10500
            /\ result.implied_efficiency = "Cheap" <=> S <= 9500

\* C5 as claimed: for a caller's zThreshold >= 0 the flagged instruments are
\* exactly those whose absolute standardized score exceeds it, labelled high
\* for a positive and low for a negative score, and "anomalies present" says
\* whether any is flagged.
C5_CallerThreshold ==
    (/\ pc = "anom_returned"
     /\ result # None
     /\ threshold[1] >= 0
     /\ Numeric(AtAsOf(selected))) =>
        LET rows == AtAsOf(selected)
            n == Cardinality(rows)
            s == TotalPrice(rows)
            dev(r) == n * r.yes_price - s
            v == SumOver(rows, [r \in rows |-> dev(r) * dev(r)]) \div n
        IN  /\ {a.ticker : a \in result.anomalies} =
                  {r.ticker : r \in {x \in rows : ZExceeds(dev(x), n, v, threshold)}}
            /\ \A a \in result.anomalies : \A r \in rows :
                  a.ticker = r.ticker =>
                      /\ dev(r) > 0 => a.anomaly_type = "UNUSUALLY_HIGH"
                      /\ dev(r) < 0 => a.anomaly_type = "UNUSUALLY_LOW"
            /\ result.anomalies_detected <=> result.anomalies # {}

\* C7 as claimed: a call with a negative threshold or with an empty
\* instrument id ends in an input-validation error.
C7_InvalidInputFails ==
    (/\ pc \in {"cons_returned", "anom_returned"}
     /\ \/ pc = "anom_returned" /\ threshold[1] < 0
        \/ \E k \in 1..Len(event_tickers) : event_tickers[k] = E0)
        => result.kind = "error"

RECURSIVE Sorted(_)
Sorted(S) ==
    IF S = {} THEN << >>
    ELSE LET m == CHOOSE x \in S : \A y \in S \ {x} : TickerLess(x, y)
         IN  <<m>> \o Sorted(S \ {m})

SeriesTickers(rows, series) ==
    Sorted({r.ticker : r \in {x \in rows : x.series_ticker = series}})

group_related_markets(rows, series) ==
    GroupLoop(SeriesTickers(rows, series), << >>)

\* list(related_markets.items())[:3]
DemoGroups == 3

\* Every group, singletons too.
AnyGroup(tkrs) == Len(tkrs) >= 1

\* len(tickers) > 1, line 156.
Analysed(tkrs) == Len(tkrs) > 1

\* Lines 170-176: what is printed for the detector's return value.
AnomalyLines(anomalies) ==
    IF anomalies # None /\ anomalies.anomalies_detected
    THEN [line |-> "ANOMALIES DETECTED",
          items |-> {[ticker |-> a.ticker, anomaly_type |-> a.anomaly_type] :
                        a \in anomalies.anomalies}]
    ELSE [line |-> "No significant anomalies detected", items |-> {}]

\* Lines 161-167: what is printed for the evaluator's return value.
ConsistencyLines(prob_sum) ==
    IF prob_sum # None
    THEN [line |-> "Probability Sum",
          total_probability_sum |-> prob_sum.total_probability_sum,
          implied_efficiency |-> prob_sum.implied_efficiency,
          market_prices |-> prob_sum.market_prices]
    ELSE None

ReportTickers == {A1, A2, A3, A4, B1, C1t, D1, D2, Z1}

ReportPrice(t) == IF t = A4 THEN 5500 ELSE 5000

\* An earlier poll that saw three instruments.
ReportOldPoll == {RowOf(BareMarket(t, 9000), 1) : t \in {A1, A2, D1}}

ReportStores ==
    {{RowOf(BareMarket(t, ReportPrice(t)), 2) : t \in P} \cup old :
        P \in SUBSET ReportTickers, old \in {{}, ReportOldPoll}}

InitReport ==
    /\ store \in ReportStores
    /\ nsaves = 0
    /\ saved = None
    /\ pc = "main"
    /\ NoCall
    /\ NoGrouping
    /\ NoReport

\* Line 151.
MainGroup ==
    /\ pc = "main"
    /\ related_groups' = group_related_markets(store, Series)
    /\ tickers' = SeriesTickers(store, Series)
    /\ i' = 0
    /\ pc' = "loop"
    /\ UNCHANGED <<storeVars, event_tickers, threshold, selected, df, result, report>>

\* One pass of the loop of line 155 over a group that is analysed.
LoopAnalyse ==
    /\ pc = "loop"
    /\ i < Min(DemoGroups, Len(related_groups))
    /\ Analysed(related_groups[i + 1].members)
    /\ LET event_id == related_groups[i + 1].key
           tkrs == related_groups[i + 1].members
           prob_sum ==
               calculate_implied_probability_sum(tkrs, Where(store, tkrs))
       IN  \E frame \in LimitChoices(Where(store, tkrs), Len(tkrs)) :
              LET anomalies ==
                      detect_probability_anomalies(tkrs, DefaultThreshold, frame)
              IN  /\ report' = Append(report,
                        [group |-> i + 1,
                         event_id |-> event_id,
                         tickers |-> tkrs,
                         prob_sum |-> ConsistencyLines(prob_sum),
                         anomalies |-> AnomalyLines(anomalies)])
                  /\ event_tickers' = tkrs
                  /\ selected' = Where(store, tkrs)
                  /\ df' = frame
                  /\ result' = anomalies
    /\ i' = i + 1
    /\ UNCHANGED <<storeVars, pc, threshold, groupVars>>

\* One pass over a group that is skipped.
LoopSkip ==
    /\ pc = "loop"
    /\ i < Min(DemoGroups, Len(related_groups))
    /\ ~Analysed(related_groups[i + 1].members)
    /\ i' = i + 1
    /\ UNCHANGED <<storeVars, pc, event_tickers, threshold, selected, df, result,
                   groupVars, report>>

\* The loop is over, lines 178-183.
LoopEnd ==
    /\ pc = "loop"
    /\ i >= Min(DemoGroups, Len(related_groups))
    /\ pc' = "done"
    /\ UNCHANGED <<storeVars, event_tickers, threshold, selected, df, result,
                   groupVars, i, report>>

NextReport == MainGroup \/ LoopAnalyse \/ LoopSkip \/ LoopEnd

SpecReport == InitReport /\ [][NextReport]_vars

\* The rows of the store for the members of group g.
RowsOfGroup(g) ==
    {r \in store : \E m \in 1..Len(related_groups[g].members) :
                      related_groups[g].members[m] = r.ticker}

\* The entry of the report for group g, if any.
EntriesOf(g) ==
    {k \in 1..Len(report) : report[k].event_id = related_groups[g].key}

\* The detector's precondition as the code checks it: the query returned
\* fewer than 3 rows.
DetectorAbsent(g) ==
    Min(Len(related_groups[g].members), Cardinality(RowsOfGroup(g))) < 3

====
